---------------------------- MODULE Spec2Model ----------------------------
(***************************************************************************)
(* Model of src/context7_bridge.py: the Context7Client subprocess client,  *)
(* the ChatGPTContext7Bridge search/fetch operations with their result     *)
(* cache, and the JSON-RPC dispatch of sse_endpoint.                       *)
(*                                                                         *)
(* Python str values are TLA+ strings; the str methods the program uses    *)
(* (split, strip, startswith, replace, `in`, title, int) are operators     *)
(* computed character by character.  A Python value whose type matters is  *)
(* a record [t |-> type, v |-> text].                                      *)
(***************************************************************************)
EXTENDS Integers, Sequences, FiniteSets, TLC

(***************************************************************************)
(* State                                                                   *)
(***************************************************************************)
VARIABLES
    search_cache,   \* ChatGPTContext7Bridge.search_cache
    request_id,     \* Context7Client.request_id
    minted,         \* history: every cache insertion of a search (result id, library id, query, entry)
    last,           \* the operation run for the latest request, if any
    reply           \* what sse_endpoint returned for the latest request

vars == <<search_cache, request_id, minted, last, reply>>

(***************************************************************************)
(* Python str primitives                                                   *)
(***************************************************************************)
Max2(a, b) == IF a >= b THEN a ELSE b

Char(s, i) == SubSeq(s, i, i)

\* str.strip() removes these from both ends
Whitespace == {" ", "\t", "\n", "\r", "\f"}

\* s.startswith(p)
StartsWith(s, p) == Len(s) >= Len(p) /\ SubSeq(s, 1, Len(p)) = p

\* index of the first occurrence of p in s at or after position i, or 0
FindFrom(s, p, i) ==
    LET J == {j \in i..(Len(s) - Len(p) + 1) : SubSeq(s, j, j + Len(p) - 1) = p}
    IN  IF J = {} THEN 0 ELSE CHOOSE j \in J : \A k \in J : j <= k

\* p in s
Contains(s, p) == \E j \in 1..(Len(s) - Len(p) + 1) : SubSeq(s, j, j + Len(p) - 1) = p

\* s.lstrip() and s.rstrip()
RECURSIVE LStrip(_)
LStrip(s) == IF s # "" /\ Head(s) \in Whitespace THEN LStrip(Tail(s)) ELSE s

RECURSIVE RStrip(_)
RStrip(s) ==
    IF s # "" /\ Char(s, Len(s)) \in Whitespace THEN RStrip(SubSeq(s, 1, Len(s) - 1)) ELSE s

\* s.strip()
Strip(s) == RStrip(LStrip(s))

\* s.replace(old, new): every non-overlapping occurrence, left to right
RECURSIVE ReplaceFrom(_, _, _, _)
ReplaceFrom(s, old, new, i) ==
    LET j == FindFrom(s, old, i)
    IN  IF j = 0 THEN SubSeq(s, i, Len(s))
        ELSE SubSeq(s, i, j - 1) \o new \o ReplaceFrom(s, old, new, j + Len(old))

Replace(s, old, new) == ReplaceFrom(s, old, new, 1)

\* s.split(sep) for a one-character sep: always at least one piece
RECURSIVE SplitFrom(_, _, _)
SplitFrom(s, sep, i) ==
    LET j == FindFrom(s, sep, i)
    IN  IF j = 0 THEN <<SubSeq(s, i, Len(s))>>
        ELSE <<SubSeq(s, i, j - 1)>> \o SplitFrom(s, sep, j + 1)

Split(s, sep) == SplitFrom(s, sep, 1)

Last(q) == q[Len(q)]

Digits == <<"0", "1", "2", "3", "4", "5", "6", "7", "8", "9">>

IsDigit(c) == \E d \in 1..10 : Digits[d] = c

DigitVal(c) == (CHOOSE d \in 1..10 : Digits[d] = c) - 1

\* int(s) accepts an optional sign followed by digits, a single underscore
\* allowed between two digits; anything else raises ValueError
IsIntLiteral(s) ==
    LET body == IF Len(s) > 0 /\ Char(s, 1) \in {"+", "-"} THEN SubSeq(s, 2, Len(s)) ELSE s
    IN  /\ Len(body) > 0
        /\ \A k \in 1..Len(body) :
              \/ IsDigit(Char(body, k))
              \/ /\ Char(body, k) = "_"
                 /\ k > 1 /\ k < Len(body)
                 /\ IsDigit(Char(body, k - 1)) /\ IsDigit(Char(body, k + 1))

RECURSIVE DigitsVal(_, _)
DigitsVal(s, acc) ==
    IF s = "" THEN acc
    ELSE IF Head(s) = "_" THEN DigitsVal(Tail(s), acc)
    ELSE DigitsVal(Tail(s), 10 * acc + DigitVal(Head(s)))

\* int(s) for a literal s
IntOf(s) ==
    IF Char(s, 1) = "-" THEN 0 - DigitsVal(SubSeq(s, 2, Len(s)), 0)
    ELSE IF Char(s, 1) = "+" THEN DigitsVal(SubSeq(s, 2, Len(s)), 0)
    ELSE DigitsVal(s, 0)

Lower == "abcdefghijklmnopqrstuvwxyz"
Upper == "ABCDEFGHIJKLMNOPQRSTUVWXYZ"

LowerSet == {Char(Lower, k) : k \in 1..26}
UpperSet == {Char(Upper, k) : k \in 1..26}

IsLetter(c) == c \in LowerSet \/ c \in UpperSet

ToUpper(c) == IF c \in LowerSet THEN Char(Upper, FindFrom(Lower, c, 1)) ELSE c

ToLower(c) == IF c \in UpperSet THEN Char(Lower, FindFrom(Upper, c, 1)) ELSE c

\* s.title(): a letter is upper-cased when it follows a non-letter, else lower-cased
RECURSIVE TitleFrom(_, _)
TitleFrom(s, i) ==
    IF i > Len(s) THEN ""
    ELSE (IF i > 1 /\ IsLetter(Char(s, i - 1)) THEN ToLower(Char(s, i)) ELSE ToUpper(Char(s, i)))
         \o TitleFrom(s, i + 1)

Title(s) == TitleFrom(s, 1)

\* hashlib.md5(text.encode()).hexdigest(): a string of hexadecimal digits;
\* the digest is taken to be collision free, so it is written as a two-digit
\* hexadecimal code per character of its input
HexDigits == "0123456789abcdef"
CodePage == " !#$%&()*+,-./0123456789:;<=>?@ABCDEFGHIJKLMNOPQRSTUVWXYZ[]_abcdefghijklmnopqrstuvwxyz{|}~"

HexPair(n) == Char(HexDigits, (n \div 16) + 1) \o Char(HexDigits, (n % 16) + 1)

HexCode == [c \in {Char(CodePage, k) : k \in 1..Len(CodePage)} |-> HexPair(FindFrom(CodePage, c, 1))]

RECURSIVE HexFrom(_)
HexFrom(s) ==
    IF s = "" THEN ""
    ELSE (IF Head(s) \in DOMAIN HexCode THEN HexCode[Head(s)] ELSE "00") \o HexFrom(Tail(s))

Md5Hex(text) == HexFrom(text)

\* json.loads turns the escape of a lone surrogate (\ud800 .. \udfff) into
\* a str that holds it; the model writes such a character as Surrogate
Surrogate == "^"

\* text.encode() succeeds: UTF-8 has no encoding of a lone surrogate, for
\* which str.encode raises UnicodeEncodeError
Encodable(text) == ~Contains(text, Surrogate)

(***************************************************************************)
(* Python values                                                           *)
(***************************************************************************)
Str(s) == [t |-> "str", v |-> s]

\* None, and the marker of a dict key that is not there
None == [t |-> "NoneType", v |-> "None"]
Absent == [t |-> "absent", v |-> ""]

\* values of other JSON types, v the repr: a number and a list
PyInt(r) == [t |-> "int", v |-> r]
PyList(r) == [t |-> "list", v |-> r]

IsStr(x) == x.t = "str"

\* truth value of a Python value
Truthy(x) == CASE x.t = "str" -> x.v # ""
               [] x.t = "int" -> x.v # "0"
               [] x.t = "list" -> x.v # "[]"
               [] OTHER -> FALSE

(***************************************************************************)
(* Context7Client                                                          *)
(***************************************************************************)
\* first word of each entry of npx_commands, in list order
NpxCommands == <<"npx", "C:\\Program Files\\nodejs\\npx.cmd",
                 "C:\\Users\\S\\AppData\\Roaming\\npm\\npx.cmd", "wsl">>

\* outcome of one subprocess.run: kind is "completed" or the exception
\* raised; stdout is the sequence of its lines, each line the outcome of
\* json.loads on it
Completed(rc, out, err) == [kind |-> "completed", returncode |-> rc, stdout |-> out, stderr |-> err, msg |-> ""]
Raised(exc, m) == [kind |-> exc, returncode |-> 0, stdout |-> <<>>, stderr |-> "", msg |-> m]

NoResult == [kind |-> "None", returncode |-> 0, stdout |-> <<>>, stderr |-> "", msg |-> ""]

\* one stdout line: json is "blank", "invalid" (JSONDecodeError), "array"
\* (a JSON value that is not an object) or "object"; for an object, id is
\* "echo" (the id of the tools/call frame the process was sent), "init" (0)
\* or "absent"; result is "absent", "null" or "dict"; content is "absent",
\* "empty", "text", "textNoKey", "image" or "nondict"; text is content[0].text
Line(j, i, r, c, x) == [json |-> j, id |-> i, result |-> r, content |-> c, text |-> x]

BlankLine == Line("blank", "absent", "absent", "absent", None)
InvalidLine == Line("invalid", "absent", "absent", "absent", None)
ArrayLine == Line("array", "absent", "absent", "absent", None)
InitLine == Line("object", "init", "dict", "absent", None)
TextLine(x) == Line("object", "echo", "dict", "text", x)

\* response.get("id") for a line of the process that was sent request id `sent`
LineId(line, sent) == CASE line.id = "echo" -> sent
                        [] line.id = "init" -> 0
                        [] OTHER -> -1

\* GetRequestId handing out the counter without raising it
GetRequestIdReused(rid) == rid

\* _get_request_id: the counter after the increment, which is also returned
GetRequestId(rid) == rid + 1

\* TryCommands running every command, whatever the earlier ones returned
TryCommandsAll(attempts, i, result, last_error, tried) ==
    [result |-> attempts[Len(attempts)], last_error |-> last_error,
     tried |-> [j \in 1..Len(attempts) |-> j]]

\* one pass of the for loop over npx_commands, for command i: the locals
\* after it, and whether the pass ended in break
TryCommand(attempts, i, result, last_error, tried) ==
    LET a == attempts[i]
        cmd0 == NpxCommands[i]
    IN  IF a.kind = "completed"
        THEN IF a.returncode = 0 /\ a.stdout # <<>>
             THEN [result |-> a, last_error |-> last_error, tried |-> Append(tried, i), broke |-> TRUE]
             ELSE [result |-> a,
                   last_error |-> Str("Command " \o cmd0 \o " failed: returncode=" \o ToString(a.returncode)),
                   tried |-> Append(tried, i), broke |-> FALSE]
        ELSE IF a.kind \in {"FileNotFoundError", "TimeoutExpired"}
        THEN [result |-> result, last_error |-> Str("Command " \o cmd0 \o " error: " \o a.msg),
              tried |-> Append(tried, i), broke |-> FALSE]
        ELSE [result |-> result, last_error |-> Str("Unexpected error with " \o cmd0 \o ": " \o a.msg),
              tried |-> Append(tried, i), broke |-> FALSE]

\* the for loop over npx_commands: the state after trying commands i..4
RECURSIVE TryCommands(_, _, _, _, _)
TryCommands(attempts, i, result, last_error, tried) ==
    IF i > Len(NpxCommands) THEN [result |-> result, last_error |-> last_error, tried |-> tried]
    ELSE LET pass == TryCommand(attempts, i, result, last_error, tried)
         IN  IF pass.broke
             THEN [result |-> pass.result, last_error |-> pass.last_error, tried |-> pass.tried]
             ELSE TryCommands(attempts, i + 1, pass.result, pass.last_error, pass.tried)

\* the scan of the stdout lines from line i on; current is self.request_id
\* at the time of the scan, sent the id the process was given
RECURSIVE ScanLines(_, _, _, _)
ScanLines(lines, i, current, sent) ==
    IF i > Len(lines) THEN Str("No valid response from Context7 server")
    ELSE LET line == lines[i]
         IN  CASE line.json = "blank" -> ScanLines(lines, i + 1, current, sent)
               [] line.json = "invalid" -> ScanLines(lines, i + 1, current, sent)
               [] line.json = "array" ->
                    Str("Error calling Context7: 'list' object has no attribute 'get'")
               [] OTHER ->
                    IF LineId(line, sent) = current /\ line.result # "absent"
                    THEN CASE line.result = "null" ->
                                Str("Error calling Context7: 'NoneType' object has no attribute 'get'")
                           [] line.content \in {"absent", "empty"} -> ScanLines(lines, i + 1, current, sent)
                           [] line.content = "nondict" ->
                                Str("Error calling Context7: 'str' object has no attribute 'get'")
                           [] line.content = "text" -> line.text
                           [] line.content = "textNoKey" -> Str("Error calling Context7: 'text'")
                           [] OTHER -> ScanLines(lines, i + 1, current, sent)
                    ELSE ScanLines(lines, i + 1, current, sent)

\* CallResult reporting every failed loop as 'Could not get response'
CallResultNoExitCheck(loop, current, sent) ==
    IF loop.result.kind = "None" \/ loop.result.stdout = <<>> \/ loop.result.returncode # 0
    THEN Str("Could not get response from Context7 server. Last error: " \o loop.last_error.v)
    ELSE ScanLines(loop.result.stdout, 1, current, sent)

\* what _call_context7 returns after the loop over npx_commands; current is
\* self.request_id at that time
CallResult(loop, current, sent) ==
    IF loop.result.kind = "None" \/ loop.result.stdout = <<>>
    THEN Str("Could not get response from Context7 server. Last error: " \o loop.last_error.v)
    ELSE IF loop.result.returncode # 0
    THEN Str("Error calling Context7: " \o loop.result.stderr)
    ELSE ScanLines(loop.result.stdout, 1, current, sent)

\* _call_context7: the value returned, the commands tried, the id sent
CallContext7(rid, attempts) ==
    LET sent == GetRequestId(rid)
        loop == TryCommands(attempts, 1, NoResult, None, <<>>)
    IN  [text |-> CallResult(loop, sent, sent), tried |-> loop.tried, sent |-> sent]

\* the tools/call frame of resolve_library_id
ResolveLibraryIdCall(library_name) ==
    [tool |-> "resolve-library-id", library |-> library_name, tokens |-> 0, topic |-> Absent]

\* the tools/call frame of get_library_docs: topic is sent only when truthy
GetLibraryDocsCall(library_id, topic, tokens) ==
    [tool |-> "get-library-docs", library |-> library_id, tokens |-> tokens,
     topic |-> IF Truthy(topic) THEN topic ELSE Absent]

(***************************************************************************)
(* ChatGPTContext7Bridge                                                   *)
(***************************************************************************)
\* Python dicts with str keys and str values
EmptyDict == [k \in {} |-> ""]

DictSet(d, k, x) == [y \in (DOMAIN d) \cup {k} |-> IF y = k THEN x ELSE d[y]]

\* d.get(k)
DictGet(d, k) == IF k \in DOMAIN d THEN Str(d[k]) ELSE None

\* d.get(k, default)
DictGetOr(d, k, default) == IF k \in DOMAIN d THEN d[k] ELSE default

\* the slice bound of results[:10]
MaxResults == 10

\* current_library and current_library.get('id')
HasId(lib) == DOMAIN lib # {} /\ Truthy(DictGet(lib, "id"))

\* NewLibrary that keeps the fields of the library before
NewLibraryKeeping(current, title) == DictSet(current, "title", title)

\* the dict a Title line starts
NewLibrary(current, title) == DictSet(EmptyDict, "title", title)

\* the value of a field line: line.replace(marker, '').strip()
FieldValue(line, marker) == Strip(Replace(line, marker, ""))

\* one iteration of the loop over lines: st is [results, current]
ParseLine(st, raw) ==
    LET line == Strip(raw)
    IN  CASE StartsWith(line, "- Title:") ->
               [results |-> IF HasId(st.current) THEN Append(st.results, st.current) ELSE st.results,
                current |-> NewLibrary(st.current, FieldValue(line, "- Title:"))]
          [] StartsWith(line, "- Context7-compatible library ID:") ->
               LET library_id == FieldValue(line, "- Context7-compatible library ID:")
               IN  [st EXCEPT !.current = DictSet(DictSet(st.current, "id", library_id), "library_id", library_id)]
          [] StartsWith(line, "- Description:") ->
               [st EXCEPT !.current = DictSet(st.current, "text", FieldValue(line, "- Description:"))]
          [] StartsWith(line, "- Code Snippets:") ->
               [st EXCEPT !.current = DictSet(st.current, "snippets", FieldValue(line, "- Code Snippets:"))]
          [] StartsWith(line, "- Trust Score:") ->
               [st EXCEPT !.current = DictSet(st.current, "trust_score", FieldValue(line, "- Trust Score:"))]
          [] OTHER -> st

\* the loop over lines from line i on; the state after line i is computed
\* (the test on it never fails) before the rest of the loop runs
RECURSIVE ParseLines(_, _, _)
ParseLines(lines, i, st) ==
    IF i > Len(lines) THEN st
    ELSE LET after == ParseLine(st, lines[i])
         IN  IF Len(after.results) >= 0 THEN ParseLines(lines, i + 1, after) ELSE st

\* Truncate returning every record
TruncateNone(results) == results

\* results[:10]
Truncate(results) == SubSeq(results, 1, IF Len(results) < MaxResults THEN Len(results) ELSE MaxResults)

\* parse_library_info on a str
ParseLibraryInfo(context7_response) ==
    LET st == ParseLines(Split(context7_response, "\n"), 1, [results |-> <<>>, current |-> EmptyDict])
        results == IF HasId(st.current) THEN Append(st.results, st.current) ELSE st.results
    IN  Truncate(results)

\* parse_library_info on any value: .split of a value that is not a str
\* raises inside the try, which leaves results empty
ParseLibraryInfoValue(x) == IF IsStr(x) THEN ParseLibraryInfo(x.v) ELSE <<>>

\* query.startswith('/') and '/' in query[1:]
IsLibraryPath(s) == StartsWith(s, "/") /\ Contains(SubSeq(s, 2, Len(s)), "/")

\* `needle in x`: a str is searched, a list has no such member, a number
\* raises TypeError
InText(needle, x) == IsStr(x) /\ Contains(x.v, needle)

InRaises(x) == x.t \notin {"str", "list"}

\* DirectResultId hashing the query alone
DirectResultIdBare(query) == Md5Hex(query)

\* the id of the single result of a library-path query
DirectResultId(query) == Md5Hex(query \o ":direct")

\* ResultId made unique per backend call instead of per (library, query)
ResultIdPerCall(library_id, query) == Md5Hex(library_id \o ":" \o query \o ":" \o ToString(request_id))

\* the id of a name-search result
ResultId(library_id, query) == Md5Hex(library_id \o ":" \o query)

\* the cache entry of a library-path query
DirectEntry(query) ==
    [library_id |-> query, query |-> query,
     title |-> Title(Replace(Last(Split(query, "/")), "-", " ")),
     description |-> "Direct Context7 library access for " \o query,
     snippets |-> "Available", trust_score |-> "Verified"]

\* the cache entry of a candidate of a name search
LibraryEntry(lib, query) ==
    [library_id |-> lib["id"], query |-> query,
     title |-> DictGetOr(lib, "title", ""),
     description |-> DictGetOr(lib, "text", ""),
     snippets |-> DictGetOr(lib, "snippets", "0"),
     trust_score |-> DictGetOr(lib, "trust_score", "0")]

\* CachePut on a cache that holds one entry only: the others are evicted
CachePutEvicting(cache, k, e) == [y \in {k} |-> e]

\* self.search_cache[k] = e
CachePut(cache, k, e) == [y \in (DOMAIN cache) \cup {k} |-> IF y = k THEN e ELSE cache[y]]

DirectResult(query) ==
    [id |-> DirectResultId(query),
     title |-> "Direct Library Access: " \o query,
     text |-> "Context7-compatible library ID: " \o query
              \o "\nDirect access verified - documentation available.\nUse fetch tool to retrieve full documentation.",
     url |-> "https://context7.com" \o query]

\* the bracketed metadata summary of a name-search result
Context7Info(lib) ==
    LET sn == IF Truthy(DictGet(lib, "snippets")) THEN <<"Code Snippets: " \o lib["snippets"]>> ELSE <<>>
        ts == IF Truthy(DictGet(lib, "trust_score")) THEN <<"Trust Score: " \o lib["trust_score"]>> ELSE <<>>
        info == sn \o ts
    IN  IF info = <<>> THEN ""
        ELSE "\n[" \o info[1] \o (IF Len(info) > 1 THEN " | " \o info[2] ELSE "") \o "]"

LibraryResult(lib, query) ==
    [id |-> ResultId(lib["id"], query),
     title |-> DictGetOr(lib, "title", "Unknown Library") \o " (" \o lib["id"] \o ")",
     text |-> (IF Truthy(DictGet(lib, "text")) THEN lib["text"] ELSE "")
              \o Context7Info(lib)
              \o "\nContext7 Library ID: " \o lib["id"]
              \o "\nUse the fetch tool with this result's ID to get full documentation. Add '|topic:your_topic' for focused docs.",
     url |-> "https://context7.com" \o lib["id"]]

\* SearchExcept without the except clause: the exception reaches the caller
SearchExceptPropagates == [kind |-> "raise", exc |-> "Exception", msg |-> "unhandled"]

\* the value search returns when it catches an exception
SearchExcept == [kind |-> "return", results |-> <<>>]

\* the loop over libraries from index i on: acc is [cache, results, minted,
\* raised]; the loop ends when .encode() raises for a candidate
RECURSIVE SearchLoop(_, _, _, _)
SearchLoop(libraries, i, query, acc) ==
    IF i > Len(libraries) THEN acc
    ELSE LET lib == libraries[i]
         IN  IF ~Truthy(DictGet(lib, "id")) \/ ~Truthy(DictGet(lib, "title"))
             THEN SearchLoop(libraries, i + 1, query, acc)
             ELSE IF ~Encodable(lib["id"] \o ":" \o query)
             THEN [acc EXCEPT !.raised = TRUE]
             ELSE SearchLoop(libraries, i + 1, query,
                     [raised |-> FALSE,
                      cache |-> CachePut(acc.cache, ResultId(lib["id"], query), LibraryEntry(lib, query)),
                      results |-> Append(acc.results, LibraryResult(lib, query)),
                      minted |-> acc.minted \cup {[id |-> ResultId(lib["id"], query), library_id |-> lib["id"],
                                                    query |-> query, branch |-> "name",
                                                    entry |-> LibraryEntry(lib, query)]}])

\* search(query): outcome, the cache and request counter afterwards, the
\* backend calls issued, the cache insertions made (result id, candidate,
\* entry written)
Search(cache, rid, query, attempts) ==
    IF ~IsStr(query)
    THEN [outcome |-> SearchExcept, cache |-> cache, rid |-> rid, calls |-> <<>>, minted |-> {},
          backend |-> None, raised |-> TRUE]
    ELSE IF IsLibraryPath(query.v)
    THEN LET r == CallContext7(rid, attempts)
             test_docs == r.text
             calls == <<GetLibraryDocsCall(query.v, None, 100)>>
         IN  IF InRaises(test_docs)
             THEN [outcome |-> SearchExcept, cache |-> cache, rid |-> r.sent, calls |-> calls,
                   minted |-> {}, backend |-> test_docs, raised |-> TRUE]
             ELSE IF InText("Error calling Context7", test_docs) \/ InText("No documentation found", test_docs)
             THEN [outcome |-> [kind |-> "return", results |-> <<>>], cache |-> cache, rid |-> r.sent,
                   calls |-> calls, minted |-> {}, backend |-> test_docs, raised |-> FALSE]
             ELSE IF ~Encodable(query.v \o ":direct")
             THEN [outcome |-> SearchExcept, cache |-> cache, rid |-> r.sent, calls |-> calls,
                   minted |-> {}, backend |-> test_docs, raised |-> TRUE]
             ELSE [outcome |-> [kind |-> "return", results |-> <<DirectResult(query.v)>>],
                   cache |-> CachePut(cache, DirectResultId(query.v), DirectEntry(query.v)),
                   rid |-> r.sent, calls |-> calls,
                   minted |-> {[id |-> DirectResultId(query.v), library_id |-> query.v, query |-> query.v,
                                branch |-> "direct", entry |-> DirectEntry(query.v)]},
                   backend |-> test_docs, raised |-> FALSE]
    ELSE LET r == CallContext7(rid, attempts)
             context7_response == r.text
             calls == <<ResolveLibraryIdCall(query.v)>>
         IN  IF InRaises(context7_response)
             THEN [outcome |-> SearchExcept, cache |-> cache, rid |-> r.sent, calls |-> calls,
                   minted |-> {}, backend |-> context7_response, raised |-> TRUE]
             ELSE IF InText("No matching libraries found", context7_response)
                     \/ InText("Error calling Context7", context7_response)
             THEN [outcome |-> [kind |-> "return", results |-> <<>>], cache |-> cache, rid |-> r.sent,
                   calls |-> calls, minted |-> {}, backend |-> context7_response, raised |-> FALSE]
             ELSE LET acc == SearchLoop(ParseLibraryInfoValue(context7_response), 1, query.v,
                                        [cache |-> cache, results |-> <<>>, minted |-> {}, raised |-> FALSE])
                  IN  [outcome |-> IF acc.raised THEN SearchExcept
                                   ELSE [kind |-> "return", results |-> acc.results],
                       cache |-> acc.cache, rid |-> r.sent, calls |-> calls, minted |-> acc.minted,
                       backend |-> context7_response, raised |-> acc.raised]

\* the default of tokens, and the floor max(tokens, 10000)
DefaultTokens == 10000
MinTokens == 10000

\* ClampTokens without the floor
ClampTokensUnfloored(n) == n

ClampTokens(n) == Max2(n, MinTokens)

\* the topic a 'topic:' part sets
TopicOf(part) == Str(Strip(Replace(part, "topic:", "")))

\* ParsePart taking a tokens value that int() rejects as 0
ParsePartZeroing(st, part) ==
    IF StartsWith(part, "topic:")
    THEN [st EXCEPT !.topic = TopicOf(part)]
    ELSE IF StartsWith(part, "tokens:")
    THEN LET digits == Strip(Replace(part, "tokens:", ""))
         IN  [st EXCEPT !.tokens = IF IsIntLiteral(digits) THEN ClampTokens(IntOf(digits)) ELSE 0]
    ELSE st

\* one iteration of the loop over parts[1:]: st is [topic, tokens]
ParsePart(st, part) ==
    IF StartsWith(part, "topic:")
    THEN [st EXCEPT !.topic = TopicOf(part)]
    ELSE IF StartsWith(part, "tokens:")
    THEN LET digits == Strip(Replace(part, "tokens:", ""))
         IN  IF IsIntLiteral(digits)
             THEN [st EXCEPT !.tokens = ClampTokens(IntOf(digits))]
             ELSE st
    ELSE st

\* ParseParts reading only the first modifier
ParsePartsFirstOnly(parts, i, st) ==
    IF i > Len(parts) THEN st ELSE ParsePart(st, parts[i])

RECURSIVE ParseParts(_, _, _)
ParseParts(parts, i, st) ==
    IF i > Len(parts) THEN st ELSE ParseParts(parts, i + 1, ParsePart(st, parts[i]))

\* base_id, topic and tokens encoded in a fetch id
ParseFetchId(id) ==
    LET parts == Split(id, "|")
        st == ParseParts(parts, 2, [topic |-> None, tokens |-> DefaultTokens])
    IN  [base_id |-> parts[1], topic |-> st.topic, tokens |-> st.tokens]

\* cached_info of a base_id of library-path shape
PlaceholderInfo(base_id) ==
    [library_id |-> base_id, title |-> Title(Last(Split(base_id, "/"))), query |-> base_id,
     snippets |-> "Unknown", trust_score |-> "Unknown"]

\* the exception fetch re-raises for any exception e caught
FetchExcept(msg) == [kind |-> "raise", exc |-> "ValueError", msg |-> "Failed to fetch document: " \o msg]

\* UnknownId answering with placeholder metadata instead of raising
UnknownIdPlaceholder(base_id) ==
    [found |-> TRUE, library_id |-> base_id, info |-> PlaceholderInfo(base_id)]

\* the outcome of the cache lookup of a base_id that is not a key
UnknownId(base_id) ==
    [found |-> FALSE,
     error |-> "Unknown document ID: " \o base_id \o ". Please search first to get valid IDs."]

\* ResolveBase preferring, for a path, a cache entry of that library
ResolveBaseCacheFirst(cache, base_id) ==
    LET held == {k \in DOMAIN cache : cache[k].library_id = base_id}
        k == IF held # {} THEN CHOOSE h \in held : TRUE ELSE base_id
    IN  IF IsLibraryPath(base_id) /\ held = {}
        THEN [found |-> TRUE, library_id |-> base_id, info |-> PlaceholderInfo(base_id)]
        ELSE IF k \notin DOMAIN cache
        THEN UnknownId(base_id)
        ELSE [found |-> TRUE, library_id |-> cache[k].library_id,
              info |-> [library_id |-> cache[k].library_id, title |-> cache[k].title,
                        query |-> cache[k].query, snippets |-> cache[k].snippets,
                        trust_score |-> cache[k].trust_score]]

\* the branch on base_id: the library id and cached_info, or the error raised
ResolveBase(cache, base_id) ==
    IF IsLibraryPath(base_id)
    THEN [found |-> TRUE, library_id |-> base_id, info |-> PlaceholderInfo(base_id)]
    ELSE IF base_id \notin DOMAIN cache
    THEN UnknownId(base_id)
    ELSE [found |-> TRUE, library_id |-> cache[base_id].library_id,
          info |-> [library_id |-> cache[base_id].library_id, title |-> cache[base_id].title,
                    query |-> cache[base_id].query, snippets |-> cache[base_id].snippets,
                    trust_score |-> cache[base_id].trust_score]]

\* FetchTopic without the fallback to the stored query
FetchTopicOverrideOnly(topic, info) == topic

\* topic if topic else cached_info.get("query")
FetchTopic(topic, info) == IF Truthy(topic) THEN topic ELSE Str(info.query)

\* whether fetch treats the text get_library_docs returned as a failure
DocsIsError(docs) == InText("Error calling Context7", docs)

\* len(docs); the lists of the model are [] and one-element lists
PyLen(x) == IF IsStr(x) THEN Len(x.v) ELSE IF x.v = "[]" THEN 0 ELSE 1

\* the document fetch returns
Document(id, p, library_id, info, fetch_topic, docs) ==
    [id |-> id,
     title |-> info.title \o (IF Truthy(p.topic) THEN " - " \o Title(p.topic.v) ELSE "") \o " Documentation",
     text |-> docs,
     url |-> "https://context7.com" \o library_id,
     metadata |-> [library_id |-> library_id, context7_compatible_id |-> library_id,
                   topic |-> fetch_topic, tokens_requested |-> p.tokens,
                   original_query |-> info.query, snippets_available |-> info.snippets,
                   trust_score |-> info.trust_score, source |-> "Context7 MCP Server",
                   documentation_length |-> PyLen(docs)]]

\* FetchCache storing the placeholder entry of a base_id of library-path shape
FetchCacheStoring(cache, base_id) ==
    IF IsLibraryPath(base_id)
    THEN CachePut(cache, base_id,
                  [library_id |-> base_id, title |-> Title(Last(Split(base_id, "/"))), query |-> base_id,
                   description |-> "", snippets |-> "Unknown", trust_score |-> "Unknown"])
    ELSE cache

\* self.search_cache after fetch dealt with base_id: fetch tests membership
\* and reads an entry, and assigns cached_info only to a local name
FetchCache(cache, base_id) == cache

\* fetch(id): outcome, the cache and request counter afterwards, the backend
\* calls issued
Fetch(cache, rid, id, attempts) ==
    IF ~IsStr(id)
    THEN [outcome |-> FetchExcept("'" \o id.t \o "' object has no attribute 'split'"),
          cache |-> cache, rid |-> rid, calls |-> <<>>, backend |-> None]
    ELSE LET p == ParseFetchId(id.v)
             b == ResolveBase(cache, p.base_id)
         IN  IF ~b.found
             THEN [outcome |-> FetchExcept(b.error), cache |-> FetchCache(cache, p.base_id), rid |-> rid, calls |-> <<>>,
                   backend |-> None]
             ELSE LET fetch_topic == FetchTopic(p.topic, b.info)
                      r == CallContext7(rid, attempts)
                      docs == r.text
                      calls == <<GetLibraryDocsCall(b.library_id, fetch_topic, p.tokens)>>
                  IN  IF InRaises(docs)
                      THEN [outcome |-> FetchExcept("argument of type '" \o docs.t \o "' is not iterable"),
                            cache |-> FetchCache(cache, p.base_id), rid |-> r.sent, calls |-> calls, backend |-> docs]
                      ELSE IF DocsIsError(docs)
                      THEN [outcome |-> FetchExcept("Failed to fetch documentation: " \o docs.v),
                            cache |-> FetchCache(cache, p.base_id), rid |-> r.sent, calls |-> calls, backend |-> docs]
                      ELSE [outcome |-> [kind |-> "return",
                                         doc |-> Document(id.v, p, b.library_id, b.info, fetch_topic, docs)],
                            cache |-> FetchCache(cache, p.base_id), rid |-> r.sent, calls |-> calls, backend |-> docs]

(***************************************************************************)
(* Requests and replies                                                    *)
(***************************************************************************)

\* the client's request counter is not raised above this value
MaxRequestId == 4

EmptyCache == [k \in {} |-> ""]

\* a request: its method, its id, the shape of params ("absent", "null",
\* "list" or "dict" for a JSON object), params.name, the shape of params.arguments
Request(method, rq, params, name, arguments) ==
    [method |-> method, id |-> rq, params |-> params, name |-> name, arguments |-> arguments]

NoRequest == Request("", None, "absent", Absent, "absent")

\* the params of tools/call requests: every name with every shape of
\* arguments, and params that is missing, null or not an object
ParamsOf(names, shapes) ==
    {[shape |-> "dict", name |-> n, arguments |-> a] : n \in names, a \in shapes}
    \cup {[shape |-> sh, name |-> Absent, arguments |-> "absent"] : sh \in shapes \ {"dict"}}

\* no Bridge operation ran
Idle(request) ==
    [request |-> request, op |-> "none", arg |-> None, run |-> <<>>, calls |-> <<>>,
     outcome |-> [kind |-> "none"], backend |-> None, raised |-> FALSE, before |-> EmptyCache]

NoReply == [kind |-> "none", id |-> None, code |-> 0, message |-> ""]

\* a JSON-RPC result envelope; what names the content
ResultReply(rq, what) == [kind |-> "result", id |-> rq, code |-> 0, message |-> what]

\* a JSON-RPC error envelope
ErrorReply(rq, code, message) == [kind |-> "error", id |-> rq, code |-> code, message |-> message]

\* an exception left sse_endpoint: there is no JSON-RPC envelope
Escaped(exc) == [kind |-> "escaped", id |-> None, code |-> 0, message |-> exc]

\* str(x) inside an f-string
Show(x) == IF x.t = "absent" THEN "None" ELSE x.v

\* UnknownToolReply reporting the unknown tool as a failed tool execution
UnknownToolReplyInternal(rq, tool_name) == ErrorReply(rq, -32603, "Tool execution failed: " \o Show(tool_name))

\* the reply to tools/call with a name that is neither tool
UnknownToolReply(rq, tool_name) == ErrorReply(rq, -32601, "Unknown tool: " \o Show(tool_name))

\* ToolErrorReply without the exception's message
ToolErrorReplyOpaque(rq, msg) == ErrorReply(rq, -32603, "Tool execution failed")

\* the reply of the except clause around the tool call
ToolErrorReply(rq, msg) == ErrorReply(rq, -32603, "Tool execution failed: " \o msg)

\* arguments.get(...) on a value that is not a dict
ArgumentsError(shape) ==
    IF shape = "null" THEN "'NoneType' object has no attribute 'get'"
    ELSE "'list' object has no attribute 'get'"

\* arguments.get(key, ""): x is the value under key, Absent when there is none
ArgumentOr(x) == IF x.t = "absent" THEN Str("") ELSE x

\* request.get("params", {}).get("name") and .get("arguments", {}) succeed
\* when params is missing or an object
ParamsReadable(shape) == shape \in {"absent", "dict"}

Init ==
    /\ search_cache = EmptyCache
    /\ request_id = 1
    /\ minted = {}
    /\ last = Idle(NoRequest)
    /\ reply = NoReply

(***************************************************************************)
(* sse_endpoint, one action per branch.  The sets the inputs are drawn     *)
(* from are parameters.                                                    *)
(***************************************************************************)
Initialize(rqs) ==
    \E rq \in rqs :
        /\ reply' = ResultReply(rq, "initialize")
        /\ last' = Idle(Request("initialize", rq, "absent", Absent, "absent"))
        /\ UNCHANGED <<search_cache, request_id, minted>>

ToolsList(rqs) ==
    \E rq \in rqs :
        /\ reply' = ResultReply(rq, "tools/list")
        /\ last' = Idle(Request("tools/list", rq, "absent", Absent, "absent"))
        /\ UNCHANGED <<search_cache, request_id, minted>>

NotificationsInitialized ==
    /\ reply' = NoReply
    /\ last' = Idle(Request("notifications/initialized", None, "absent", Absent, "absent"))
    /\ UNCHANGED <<search_cache, request_id, minted>>

MethodNotFound(rqs, methods) ==
    \E rq \in rqs, method \in methods :
        /\ reply' = ErrorReply(rq, -32601, "Method not found: " \o Show(method))
        /\ last' = Idle(Request(Show(method), rq, "absent", Absent, "absent"))
        /\ UNCHANGED <<search_cache, request_id, minted>>

\* tools/call whose params is null or not an object: .get raises before the try
ToolsCallMalformed(rqs, params) ==
    \E rq \in rqs, p \in params :
        /\ ~ParamsReadable(p.shape)
        /\ reply' = Escaped("AttributeError")
        /\ last' = Idle(Request("tools/call", rq, p.shape, p.name, p.arguments))
        /\ UNCHANGED <<search_cache, request_id, minted>>

\* tools/call, params an object or missing, params.name neither tool
ToolsCallUnknownTool(rqs, params) ==
    \E rq \in rqs, p \in params :
        /\ ParamsReadable(p.shape)
        /\ p.name \notin {Str("search"), Str("fetch")}
        /\ reply' = UnknownToolReply(rq, p.name)
        /\ last' = Idle(Request("tools/call", rq, p.shape, p.name, p.arguments))
        /\ UNCHANGED <<search_cache, request_id, minted>>

\* the reply to a tool call whose Bridge operation ended with outcome o
ToolReply(rq, tool_name, o) ==
    IF o.kind = "return" THEN ResultReply(rq, tool_name) ELSE ToolErrorReply(rq, o.msg)

\* tools/call of search: inputs are the (query, attempts) pairs, the query
\* Absent when arguments has none
ToolsCallSearch(rqs, params, inputs) ==
    \E rq \in rqs, p \in params :
        /\ p.shape = "dict" /\ p.name = Str("search")
        /\ LET request == Request("tools/call", rq, p.shape, p.name, p.arguments)
           IN  IF p.arguments \in {"null", "list"}
               THEN /\ reply' = ToolErrorReply(rq, ArgumentsError(p.arguments))
                    /\ last' = Idle(request)
                    /\ UNCHANGED <<search_cache, request_id, minted>>
               ELSE \E in \in inputs :
                    \E r \in {Search(search_cache, request_id, ArgumentOr(in[1]), in[2])} :
                       /\ p.arguments = "absent" => in[1] = Absent
                       /\ r.rid <= MaxRequestId
                       /\ search_cache' = r.cache
                       /\ request_id' = r.rid
                       /\ minted' = minted \cup r.minted
                       /\ last' = [request |-> request, op |-> "search", arg |-> ArgumentOr(in[1]),
                                   run |-> in[2], calls |-> r.calls, outcome |-> r.outcome,
                                   backend |-> r.backend, raised |-> r.raised, before |-> search_cache]
                       /\ reply' = ToolReply(rq, "search", r.outcome)

\* tools/call of fetch: the id is a base (one of bases or a minted result id)
\* followed by a modifier, or one of others; inputs are (modifier, attempts) pairs
ToolsCallFetch(rqs, params, bases, others, inputs) ==
    \E rq \in rqs, p \in params :
        /\ p.shape = "dict" /\ p.name = Str("fetch")
        /\ LET request == Request("tools/call", rq, p.shape, p.name, p.arguments)
           IN  IF p.arguments \in {"null", "list"}
               THEN /\ reply' = ToolErrorReply(rq, ArgumentsError(p.arguments))
                    /\ last' = Idle(request)
                    /\ UNCHANGED <<search_cache, request_id, minted>>
               ELSE \E in \in inputs :
                    \E id \in (IF p.arguments = "dict"
                               THEN {Str(b \o in[1]) : b \in bases \cup {x.id : x \in minted}} \cup others
                               ELSE {Absent}) :
                    \E r \in {Fetch(search_cache, request_id, ArgumentOr(id), in[2])} :
                       /\ r.rid <= MaxRequestId
                       /\ search_cache' = r.cache
                       /\ request_id' = r.rid
                       /\ minted' = minted
                       /\ last' = [request |-> request, op |-> "fetch", arg |-> ArgumentOr(id),
                                   run |-> in[2], calls |-> r.calls, outcome |-> r.outcome,
                                   backend |-> r.backend, raised |-> FALSE, before |-> search_cache]
                       /\ reply' = ToolReply(rq, "fetch", r.outcome)

(***************************************************************************)
(* Inputs                                                                  *)
(***************************************************************************)
\* outcomes of one subprocess attempt
NotFound == Raised("FileNotFoundError", "[Errno 2] No such file or directory")
TimedOut == Raised("TimeoutExpired", "Command timed out after 60 seconds")
Denied == Raised("PermissionError", "[Errno 13] Permission denied")
ExitOne(out) == Completed(1, out, "npm ERR! code E404")
Ok(x) == Completed(0, <<InitLine, TextLine(x)>>, "")

\* the four attempts of a call that the second command answers with x
Answer(x) == <<NotFound, Ok(x), NotFound, NotFound>>

\* texts the backend tool answers with
DocText == "# Hooks\nuseState"
NoDocsText == "No documentation found for library"
NoMatchText == "No matching libraries found"
QuotingText == "FAQ: 'Error calling Context7' means the server is down"
OneLibraryText == "Available Libraries:\n\n- Title: React\n- Context7-compatible library ID: /a/b\n- Description: UI\n- Code Snippets: 12\n- Trust Score: 9"
TwoLibrariesText == "- Title: Next.js\n- Context7-compatible library ID: /vercel/next.js\n- Trust Score: 10\n----------\n- Title: Mirror\n- Context7-compatible library ID: /a/b"
\* a response whose second library id holds a lone surrogate
SurrogateText == "- Title: React\n- Context7-compatible library ID: /a/b\n----------\n- Title: Odd\n- Context7-compatible library ID: /odd/^"

\* calls in which no command works, by kind: none can be launched, all time
\* out, mixed failures, a non-zero exit with output
Unreachable == <<NotFound, NotFound, NotFound, NotFound>>
AllTimedOut == <<TimedOut, TimedOut, TimedOut, TimedOut>>
MixedFailure == <<NotFound, Denied, ExitOne(<<>>), Completed(0, <<>>, "")>>
ErrorExit == <<ExitOne(<<InitLine>>), NotFound, NotFound, TimedOut>>

\* calls whose output has no matching response line, or a line that is not an object
NoMatchingLine == <<NotFound, Completed(0, <<InitLine, BlankLine, InvalidLine>>, ""), NotFound, NotFound>>
ArrayOutput == <<Completed(0, <<InitLine, ArrayLine>>, ""), NotFound, NotFound, NotFound>>

FailingRuns == {Unreachable, AllTimedOut, MixedFailure, ErrorExit, NoMatchingLine, ArrayOutput}

\* values of the JSON-RPC id of a request
RequestIds == {None, PyInt("7")}

\* shapes of params and of params.arguments: "dict" is a JSON object
Shapes == {"absent", "null", "list", "dict"}

\* params.name values
ToolNames == {Absent, Str("delete"), PyInt("5"), Str("search"), Str("fetch")}

\* method values without a branch
UnknownMethods == {None, Str("resources/list")}

(***************************************************************************)
(* Spec: the adapter with every branch                                     *)
(***************************************************************************)
AdapterSearches ==
    {<<Str("react"), Answer(Str(OneLibraryText))>>, <<Str("/org/project"), Unreachable>>,
     <<Str("react"), ErrorExit>>, <<None, Unreachable>>, <<Absent, Unreachable>>}

AdapterFetches ==
    {<<"", Answer(Str(DocText))>>, <<"|topic:hooks|tokens:500", ErrorExit>>, <<"", Answer(PyInt("5"))>>}

AdapterParams == ParamsOf(ToolNames, Shapes)

Next ==
    \/ Initialize(RequestIds)
    \/ ToolsList(RequestIds)
    \/ NotificationsInitialized
    \/ MethodNotFound(RequestIds, UnknownMethods)
    \/ ToolsCallMalformed(RequestIds, AdapterParams)
    \/ ToolsCallUnknownTool(RequestIds, AdapterParams)
    \/ ToolsCallSearch(RequestIds, AdapterParams, AdapterSearches)
    \/ ToolsCallFetch(RequestIds, AdapterParams, {"/org/project", "unknown-id-not-in-cache"}, {None}, AdapterFetches)

Spec == Init /\ [][Next]_vars

(***************************************************************************)
(* SpecSearch: search with every kind of query and of backend outcome      *)
(***************************************************************************)
\* the request id and params of a well-formed tools/call
PlainIds == {PyInt("7")}
SearchParams == ParamsOf({Str("search")}, {"dict"})
FetchParams == ParamsOf({Str("fetch")}, {"dict"})

AnsweringRuns ==
    {Answer(Str(x)) : x \in {DocText, NoDocsText, NoMatchText, QuotingText, OneLibraryText, TwoLibrariesText}}
    \cup {Answer(PyInt("5")), Answer(PyList("[1]"))}

SearchInputs ==
    ({Str("react"), Str("/org/project")} \X (FailingRuns \cup AnsweringRuns))
    \cup ({None, PyList("[1]"), Absent} \X {Unreachable})
    \cup {<<Str("react"), Answer(Str(SurrogateText))>>, <<Str("/org/^"), Answer(Str(DocText))>>}

NextSearch == ToolsCallSearch(PlainIds, SearchParams, SearchInputs)

SpecSearch == Init /\ [][NextSearch]_vars

(***************************************************************************)
(* SpecFetch: fetch with every kind of id and of backend outcome, after    *)
(* searches that fill the cache                                            *)
(***************************************************************************)
SeedSearches == {<<Str("react"), Answer(Str(OneLibraryText))>>}

\* the modifiers |topic:T|tokens:N
Topics == {"hooks", "", " hooks ", "topic:x"}
TokenCounts == {"500", "10000", "15000", "-5"}
TopicTokens == {"|topic:" \o t \o "|tokens:" \o n : t \in Topics, n \in TokenCounts}

FetchBases == {"/org/project", "unknown-id-not-in-cache"}

FetchInputs ==
    (TopicTokens \X {Answer(Str(DocText))})
    \cup ({""} \X (FailingRuns \cup {Answer(Str(DocText)), Answer(Str(QuotingText)), Answer(PyInt("5")), Answer(PyList("[1]"))}))

NextFetch ==
    \/ ToolsCallSearch(PlainIds, SearchParams, SeedSearches)
    \/ ToolsCallFetch(PlainIds, FetchParams, FetchBases, {None}, FetchInputs)

SpecFetch == Init /\ [][NextFetch]_vars

(***************************************************************************)
(* SpecModifiers: fetch with every form of the modifiers of an id, on a    *)
(* path, a cache key and an unknown id                                     *)
(***************************************************************************)
\* searches that fill the cache; the second has the query "" that
\* arguments.get("query", "") gives a request without a query
ModifierSearches ==
    {<<Str("react"), Answer(Str(OneLibraryText))>>, <<Str(""), Answer(Str(OneLibraryText))>>}

\* the modifiers |tokens:N|topic:T
TokensTopic == {"|tokens:" \o n \o "|topic:" \o t : t \in Topics, n \in TokenCounts}

\* a single modifier, a modifier given twice, tokens values int() rejects,
\* a part that is no modifier
OtherModifiers ==
    {"", "|topic:hooks", "|topic:", "|topic:a|topic:b", "|hooks",
     "|tokens:abc", "|tokens:", "|tokens:5.0", "|tokens: 20000 ", "|tokens:1_5000",
     "|tokens:15000|tokens:abc", "|tokens:abc|tokens:15000", "|tokens:abc|topic:hooks", "|topic:hooks|tokens:1e5"}

ModifierInputs ==
    ((TopicTokens \cup TokensTopic \cup OtherModifiers) \X {Answer(Str(DocText))})
    \cup ({"|topic:hooks|tokens:500", "|tokens:500|topic:hooks"} \X {ErrorExit})

NextModifiers ==
    \/ ToolsCallSearch(PlainIds, SearchParams, ModifierSearches)
    \/ ToolsCallFetch(PlainIds, FetchParams, FetchBases, {None}, ModifierInputs)

SpecModifiers == Init /\ [][NextModifiers]_vars

(***************************************************************************)
(* SpecRoundTrip: searches whose results are fetched                       *)
(***************************************************************************)
RoundTripSearches ==
    {<<Str("/a/b:c"), Answer(Str(DocText))>>, <<Str("c:direct"), Answer(Str(OneLibraryText))>>,
     <<Str("react"), Answer(Str(TwoLibrariesText))>>, <<Str("react"), Answer(Str(OneLibraryText))>>}

RoundTripFetches == {"", "|topic:hooks"} \X {Answer(Str(DocText)), Unreachable}

NextRoundTrip ==
    \/ ToolsCallSearch(PlainIds, SearchParams, RoundTripSearches)
    \/ ToolsCallFetch(PlainIds, FetchParams, {}, {}, RoundTripFetches)

SpecRoundTrip == Init /\ [][NextRoundTrip]_vars

(***************************************************************************)
(* SpecParse: parse_library_info applied to backend responses              *)
(***************************************************************************)
\* a block of a response: its title and, per field, the value or Absent
Block(title, id, text, snippets, trust) ==
    [title |-> title, id |-> id, text |-> text, snippets |-> snippets, trust_score |-> trust]

FieldLine(marker, x) == IF x.t = "absent" THEN "" ELSE marker \o " " \o x.v \o "\n"

\* the lines of a block as the backend writes them
RenderBlock(b) ==
    "- Title: " \o b.title \o "\n"
    \o FieldLine("- Context7-compatible library ID:", b.id)
    \o FieldLine("- Description:", b.text)
    \o FieldLine("- Code Snippets:", b.snippets)
    \o FieldLine("- Trust Score:", b.trust_score)
    \o "----------\n"

RECURSIVE RenderBlocks(_)
RenderBlocks(blocks) ==
    IF blocks = <<>> THEN "" ELSE RenderBlock(Head(blocks)) \o RenderBlocks(Tail(blocks))

FullBlock == Block("React", Str("/a/b"), Str("UI"), Str("12"), Str("9"))
ScoreBlock == Block("Next.js", Str("/vercel/next.js"), Absent, Absent, Str("10"))
NoIdBlock == Block("Ghost", Absent, Str("no id"), Absent, Absent)
EmptyIdBlock == Block("Hollow", Str(""), Absent, Str("3"), Absent)
NoTitleBlock == Block("", Str("/no/title"), Absent, Absent, Absent)

BlockKinds == {FullBlock, ScoreBlock, NoIdBlock, EmptyIdBlock, NoTitleBlock}

\* what precedes the first Title line: nothing, a heading, or field lines
NoFields == Block("", Absent, Absent, Absent, Absent)
Preambles ==
    {[text |-> "", fields |-> NoFields],
     [text |-> "Available Libraries:\n\n", fields |-> NoFields],
     [text |-> "- Context7-compatible library ID: /pre/amble\n- Trust Score: 1\n",
      fields |-> Block("", Str("/pre/amble"), Absent, Absent, Str("1"))]}

\* responses have every sequence of up to MaxBlocks blocks, and the
\* alternating sequences of about MaxResults blocks
MaxBlocks == 3

Alternating(n) == [i \in 1..n |-> IF i % 2 = 1 THEN FullBlock ELSE ScoreBlock]

BlockSequences ==
    UNION {[1..n -> BlockKinds] : n \in 0..MaxBlocks}
    \cup {Alternating(n) : n \in (MaxResults - 1)..(MaxResults + 2)}

InitParse ==
    /\ search_cache = EmptyCache
    /\ request_id = 1
    /\ minted = {}
    /\ reply = NoReply
    /\ \E pre \in Preambles, blocks \in BlockSequences :
          last = [request |-> NoRequest, op |-> "response",
                  arg |-> Str(pre.text \o RenderBlocks(blocks)),
                  given |-> [preamble |-> pre.fields, blocks |-> blocks],
                  outcome |-> [kind |-> "none", value |-> <<>>]]

\* parse_library_info(context7_response)
ParseResponse ==
    /\ last.op = "response"
    /\ last' = [last EXCEPT !.op = "parse_library_info",
                            !.outcome = [kind |-> "return", value |-> ParseLibraryInfoValue(last.arg)]]
    /\ UNCHANGED <<search_cache, request_id, minted, reply>>

NextParse == ParseResponse

SpecParse == InitParse /\ [][NextParse]_vars

(***************************************************************************)
(* SpecCapped: name searches answered with responses of about MaxResults   *)
(* blocks, and with blocks that lack an id or a title                      *)
(***************************************************************************)
\* n blocks of n libraries
ManyBlocks(n) ==
    [i \in 1..n |-> Block("Lib" \o ToString(i), Str("/lib/" \o ToString(i)), Absent, Absent, Absent)]

CappedTexts ==
    {RenderBlocks(ManyBlocks(n)) : n \in (MaxResults - 1)..(MaxResults + 2)}
    \cup {RenderBlocks(<<FullBlock, NoIdBlock, EmptyIdBlock, NoTitleBlock, ScoreBlock>>),
          RenderBlocks(<<NoTitleBlock, NoIdBlock>>), OneLibraryText}

CappedSearches ==
    ({Str("react")} \X {Answer(Str(x)) : x \in CappedTexts})
    \cup {<<Str("vue"), Answer(Str(RenderBlocks(ManyBlocks(MaxResults + 2))))>>}

NextCapped == ToolsCallSearch(PlainIds, SearchParams, CappedSearches)

SpecCapped == Init /\ [][NextCapped]_vars

(***************************************************************************)
(* SpecCall: _call_context7 against every combination of outcomes of the   *)
(* four commands and every short output, call after call on one client     *)
(***************************************************************************)
\* a JSON-RPC error response to the tools/call frame, and responses whose
\* result is null or whose content is not a text item
ErrorLine == Line("object", "echo", "absent", "absent", None)
NullResultLine == Line("object", "echo", "null", "absent", None)
EmptyContentLine == Line("object", "echo", "dict", "empty", None)
ImageLine == Line("object", "echo", "dict", "image", None)
StringContentLine == Line("object", "echo", "dict", "nondict", None)
NoTextLine == Line("object", "echo", "dict", "textNoKey", None)
StrayLine == Line("object", "absent", "dict", "text", Str("stray"))

LineKinds ==
    {BlankLine, InvalidLine, ArrayLine, InitLine, TextLine(Str("docs")), TextLine(Str("more")),
     ErrorLine, NullResultLine, EmptyContentLine, ImageLine, StringContentLine, NoTextLine, StrayLine}

\* outputs have up to MaxLines lines
MaxLines == 2

Outputs == UNION {[1..n -> LineKinds] : n \in 1..MaxLines}

\* the ways one command fails: it cannot be launched, it times out, it exits
\* non-zero without and with output, it exits zero without output
CandidateFailures == {NotFound, TimedOut, ExitOne(<<>>), ExitOne(<<InitLine>>), Completed(0, <<>>, "")}

FailedCalls == [1..Len(NpxCommands) -> CandidateFailures]

\* the k-th command is the first that works, after commands failing as f
\* and before commands behaving as g
WorkingAt ==
    {[i \in 1..Len(NpxCommands) |-> IF i < k THEN f ELSE IF i = k THEN Ok(Str("docs")) ELSE g] :
        k \in 1..Len(NpxCommands), f \in CandidateFailures, g \in {NotFound, Ok(Str("late"))}}

CallRuns ==
    FailedCalls \cup WorkingAt \cup {MixedFailure, <<Denied, Denied, Denied, Denied>>}
    \cup {<<NotFound, Completed(0, out, ""), NotFound, NotFound>> : out \in Outputs}

NoLoop == [result |-> NoResult, last_error |-> None, tried |-> <<>>]

\* the client after construction, in an environment whose commands behave as run
InitCall ==
    /\ search_cache = EmptyCache
    /\ request_id = 1
    /\ minted = {}
    /\ reply = NoReply
    /\ \E run \in CallRuns :
          last = [op |-> "idle", run |-> run, sent |-> 0, loop |-> NoLoop, matched |-> 0,
                  text |-> None, ids |-> <<>>]

\* _call_context7 up to the end of the loop: the frame gets the next request
\* id and the commands are tried.  The handler that makes the call is a
\* coroutine without an await, so a call begins only when none is under way
CallSend ==
    /\ last.op \in {"idle", "returned"}
    /\ GetRequestId(request_id) <= MaxRequestId
    /\ request_id' = GetRequestId(request_id)
    /\ last' = [last EXCEPT !.op = "sent",
                            !.sent = GetRequestId(request_id),
                            !.ids = Append(last.ids, GetRequestId(request_id)),
                            !.loop = TryCommands(last.run, 1, NoResult, None, <<>>),
                            !.matched = 0,
                            !.text = None]
    /\ UNCHANGED <<search_cache, minted, reply>>

\* _call_context7 after the loop: response lines are matched against
\* self.request_id as it is now
CallReturn ==
    /\ last.op = "sent"
    /\ last' = [last EXCEPT !.op = "returned",
                            !.matched = request_id,
                            !.text = CallResult(last.loop, request_id, last.sent)]
    /\ UNCHANGED <<search_cache, request_id, minted, reply>>

NextCall == CallSend \/ CallReturn

SpecCall == InitCall /\ [][NextCall]_vars

(***************************************************************************)
(* SpecSteps: _call_context7 one subprocess attempt at a time              *)
(***************************************************************************)
StepRuns ==
    WorkingAt
    \cup {Unreachable, AllTimedOut, MixedFailure, ErrorExit, NoMatchingLine, ArrayOutput,
          <<Denied, Denied, Denied, Denied>>}
    \cup {Answer(PyInt("5")), Answer(PyList("[1]")), Answer(None), Answer(Str(DocText))}

\* the client after construction, in an environment whose commands behave as run
InitSteps ==
    /\ search_cache = EmptyCache
    /\ request_id = 1
    /\ minted = {}
    /\ reply = NoReply
    /\ \E run \in StepRuns :
          last = [op |-> "idle", run |-> run, sent |-> 0, i |-> 0, loop |-> NoLoop, broke |-> FALSE,
                  text |-> None, calls |-> 0]

\* _call_context7 up to the for loop: the frame gets the next request id
StepBegin ==
    /\ last.op \in {"idle", "returned"}
    /\ GetRequestId(request_id) <= MaxRequestId
    /\ request_id' = GetRequestId(request_id)
    /\ last' = [last EXCEPT !.op = "trying", !.sent = GetRequestId(request_id), !.i = 1,
                            !.loop = NoLoop, !.broke = FALSE, !.text = None, !.calls = last.calls + 1]
    /\ UNCHANGED <<search_cache, minted, reply>>

\* one pass of the for loop: subprocess.run of the next command has ended,
\* by exit, by its timeout or by an exception
StepAttempt ==
    /\ last.op = "trying"
    /\ ~last.broke
    /\ last.i <= Len(NpxCommands)
    /\ \E pass \in {TryCommand(last.run, last.i, last.loop.result, last.loop.last_error, last.loop.tried)} :
          last' = [last EXCEPT !.i = last.i + 1,
                               !.loop = [result |-> pass.result, last_error |-> pass.last_error,
                                         tried |-> pass.tried],
                               !.broke = pass.broke]
    /\ UNCHANGED <<search_cache, request_id, minted, reply>>

\* the loop has ended, by break or after the last command: the rest of
\* _call_context7 up to its return
StepReturn ==
    /\ last.op = "trying"
    /\ last.broke \/ last.i > Len(NpxCommands)
    /\ last' = [last EXCEPT !.op = "returned", !.text = CallResult(last.loop, request_id, last.sent)]
    /\ UNCHANGED <<search_cache, request_id, minted, reply>>

NextSteps == StepBegin \/ StepAttempt \/ StepReturn

\* a call under way goes on: each subprocess attempt ends, and nothing
\* else runs between the passes of the loop and the return
SpecSteps == InitSteps /\ [][NextSteps]_vars /\ WF_vars(StepAttempt) /\ WF_vars(StepReturn)

(***************************************************************************)
(* Properties                                                              *)
(***************************************************************************)
\* an attempt that ends the loop over npx_commands
Worked(a) == a.kind = "completed" /\ a.returncode = 0 /\ a.stdout # <<>>

\* a stdout line that carries the text of the tool response
Matching(line) ==
    line.json = "object" /\ line.id = "echo" /\ line.result = "dict" /\ line.content = "text"

\* the call ends in a BackendClient failure: no attempt works, or the output
\* of the first one that works has no matching response line
BackendFailure(run) ==
    \/ \A i \in DOMAIN run : ~Worked(run[i])
    \/ \E i \in DOMAIN run :
          /\ Worked(run[i])
          /\ \A j \in 1..(i - 1) : ~Worked(run[j])
          /\ \A k \in DOMAIN run[i].stdout : ~Matching(run[i].stdout[k])

\* the segment of a fetch id before the first '|'
BaseOf(id) == Split(id, "|")[1]

\* C1: for every result r a search returned, a fetch of r.id calls the
\* document-retrieval tool with the library id of the candidate r was minted from
C1_FetchResolvesMintedLibrary ==
    last.op = "fetch" =>
        \A r \in minted :
            last.arg = Str(r.id) =>
                /\ last.calls # <<>>
                /\ last.calls[1].tool = "get-library-docs"
                /\ last.calls[1].library = r.library_id

\* C2: a fetch of an unknown id, or one whose backend call ends in a
\* BackendClient failure, raises an error with a message and returns no document
C2_FetchFailureRaises ==
    (/\ last.op = "fetch"
     /\ IsStr(last.arg)
     /\ \/ ~IsLibraryPath(BaseOf(last.arg.v)) /\ BaseOf(last.arg.v) \notin DOMAIN last.before
        \/ last.calls # <<>> /\ BackendFailure(last.run))
    => (last.outcome.kind = "raise" /\ last.outcome.msg # "")

\* C3: a search whose backend call ends in a BackendClient failure returns
\* an empty result list, in both branches
C3_SearchFailureEmpty ==
    (last.op = "search" /\ last.calls # <<>> /\ BackendFailure(last.run))
    => (last.outcome.kind = "return" /\ last.outcome.results = <<>>)

\* C4: a fetch whose base id is neither of library-path shape nor a cache
\* key fails with 'Unknown document ID', returns no document and calls no backend
C4_UnknownIdRejected ==
    (/\ last.op = "fetch"
     /\ IsStr(last.arg)
     /\ ~IsLibraryPath(BaseOf(last.arg.v))
     /\ BaseOf(last.arg.v) \notin DOMAIN last.before)
    => (/\ last.outcome.kind = "raise"
        /\ Contains(last.outcome.msg, "Unknown document ID")
        /\ last.calls = <<>>
        /\ reply.kind = "error")

C4_Witness ==
    /\ last.op = "fetch"
    /\ last.arg = Str("unknown-id-not-in-cache|topic:hooks|tokens:500")
    /\ DOMAIN last.before # {}
    /\ last.outcome.kind = "raise"

\* the id has the form B|topic:T|tokens:N, B of library-path shape, N an integer
TopicTokensForm(id) ==
    LET parts == Split(id, "|")
    IN  /\ Len(parts) = 3
        /\ IsLibraryPath(parts[1])
        /\ StartsWith(parts[2], "topic:")
        /\ StartsWith(parts[3], "tokens:")
        /\ IsIntLiteral(SubSeq(parts[3], 8, Len(parts[3])))

TopicIn(id) == LET part == Split(id, "|")[2] IN SubSeq(part, 7, Len(part))

TokensIn(id) == LET part == Split(id, "|")[3] IN IntOf(SubSeq(part, 8, Len(part)))

\* C5 as claimed: a fetch of B|topic:T|tokens:N calls the backend with
\* library id B, topic T and token budget max(N, 10000)
C5_TopicTokensSent ==
    (last.op = "fetch" /\ IsStr(last.arg) /\ TopicTokensForm(last.arg.v))
    => (/\ Len(last.calls) = 1
        /\ last.calls[1].library = BaseOf(last.arg.v)
        /\ last.calls[1].topic = Str(TopicIn(last.arg.v))
        /\ last.calls[1].tokens = Max2(TokensIn(last.arg.v), 10000))

\* C5 amended: a fetch of B|topic:T|tokens:N calls the backend with library
\* id B, token budget max(N, 10000), and as topic T without its occurrences
\* of 'topic:' and without surrounding whitespace, or B when nothing is left
\* of T; every backend call of a fetch has a token budget of at least 10000
C5_TopicNormalizedTokensFloored ==
    /\ (last.op = "fetch" /\ IsStr(last.arg) /\ TopicTokensForm(last.arg.v))
       => LET t == Strip(Replace(TopicIn(last.arg.v), "topic:", ""))
          IN  /\ Len(last.calls) = 1
              /\ last.calls[1].library = BaseOf(last.arg.v)
              /\ last.calls[1].topic = Str(IF t = "" THEN BaseOf(last.arg.v) ELSE t)
              /\ last.calls[1].tokens = Max2(TokensIn(last.arg.v), 10000)
    /\ last.op = "fetch" => \A k \in DOMAIN last.calls : last.calls[k].tokens >= 10000

C5_Witness ==
    /\ last.op = "fetch"
    /\ last.arg = Str("/org/project|topic:hooks|tokens:500")
    /\ last.calls = <<[tool |-> "get-library-docs", library |-> "/org/project",
                       tokens |-> 10000, topic |-> Str("hooks")]>>

\* C6: every request gets exactly one JSON-RPC reply carrying result or
\* error, the notification gets none, and no exception leaves the handler
C6_EveryRequestAnswered ==
    last.request.method # "" =>
        IF last.request.method = "notifications/initialized"
        THEN reply.kind = "none"
        ELSE reply.kind \in {"result", "error"}

\* C7: search never raises: whatever the query and the backend outcome it
\* returns a value of the form {results: [...]}
C7_SearchNeverRaises ==
    last.op = "search" =>
        /\ last.outcome.kind = "return"
        /\ DOMAIN last.outcome.results = 1..Len(last.outcome.results)

C7_Witness ==
    /\ last.op = "search"
    /\ last.raised
    /\ last.calls # <<>>
    /\ last.outcome.kind = "return"

\* C8: in any two name searches a candidate with the same library id under
\* the same query gets the same result id
C8_ResultIdFunctionOfLibraryAndQuery ==
    \A m1, m2 \in minted :
        (/\ m1.branch = "name" /\ m2.branch = "name"
         /\ m1.library_id = m2.library_id
         /\ m1.query = m2.query)
        => m1.id = m2.id

\* a library minted again, in another cache state, with other fields and neighbours
C8_Witness ==
    /\ last.op = "search"
    /\ Len(last.outcome.results) = 2
    /\ \E k \in DOMAIN last.before :
          /\ search_cache[k].library_id = last.before[k].library_id
          /\ search_cache[k].query = last.before[k].query
          /\ search_cache[k].title # last.before[k].title
          /\ \E i \in 1..2 : last.outcome.results[i].id = k

\* the record with exactly the fields of a block; a block proper has a title
FieldsOf(b, titled) ==
    LET d0 == IF titled THEN DictSet(EmptyDict, "title", b.title) ELSE EmptyDict
        d1 == IF b.id.t = "absent" THEN d0 ELSE DictSet(DictSet(d0, "id", b.id.v), "library_id", b.id.v)
        d2 == IF b.text.t = "absent" THEN d1 ELSE DictSet(d1, "text", b.text.v)
        d3 == IF b.snippets.t = "absent" THEN d2 ELSE DictSet(d2, "snippets", b.snippets.v)
    IN  IF b.trust_score.t = "absent" THEN d3 ELSE DictSet(d3, "trust_score", b.trust_score.v)

NamesLibrary(d) == "id" \in DOMAIN d /\ d["id"] # ""

FirstTen(q) == SubSeq(q, 1, IF Len(q) < 10 THEN Len(q) ELSE 10)

\* C9 as claimed: a response of k Title blocks is parsed into exactly k
\* records, the i-th carrying exactly the fields of the i-th block
C9_OneRecordPerBlock ==
    last.op = "parse_library_info" =>
        /\ Len(last.outcome.value) = Len(last.given.blocks)
        /\ \A i \in 1..Len(last.given.blocks) :
              last.outcome.value[i] = FieldsOf(last.given.blocks[i], TRUE)

\* C9 amended: the records are, in order and cut to the first 10, one per
\* segment that has a non-empty library-ID line, the segments being the
\* lines before the first Title line and each Title block; each record
\* carries exactly the fields of its own segment
C9_OneRecordPerIdentifiedSegment ==
    last.op = "parse_library_info" =>
        LET segments == <<FieldsOf(last.given.preamble, FALSE)>>
                        \o [i \in 1..Len(last.given.blocks) |-> FieldsOf(last.given.blocks[i], TRUE)]
        IN  last.outcome.value = FirstTen(SelectSeq(segments, NamesLibrary))

\* two blocks with different fields parsed into two records
C9_Witness ==
    /\ last.op = "parse_library_info"
    /\ last.given.blocks = <<FullBlock, ScoreBlock>>
    /\ Len(last.outcome.value) = 2
    /\ "text" \in DOMAIN last.outcome.value[1]
    /\ "text" \notin DOMAIN last.outcome.value[2]

\* C10: tools/call with a params.name other than 'search' and 'fetch' is
\* answered with error -32601 carrying the request's id, and no Bridge
\* operation runs
C10_UnknownToolNotFound ==
    (/\ last.request.method = "tools/call"
     /\ last.request.params \in {"absent", "dict"}
     /\ last.request.name \notin {Str("search"), Str("fetch")})
    => (/\ reply.kind = "error"
        /\ reply.code = -32601
        /\ reply.id = last.request.id
        /\ last.op = "none"
        /\ last.calls = <<>>)

C10_Witness ==
    /\ last.request.method = "tools/call"
    /\ last.request.name = Str("delete")
    /\ last.request.id = PyInt("7")
    /\ reply = ErrorReply(PyInt("7"), -32601, "Unknown tool: delete")

\* C11: an exception a Bridge operation raises during tools/call is answered
\* with error -32603 whose message contains the exception's message, with
\* the request's id
C11_BridgeExceptionInternalError ==
    (last.op \in {"search", "fetch"} /\ last.outcome.kind = "raise")
    => (/\ reply.kind = "error"
        /\ reply.code = -32603
        /\ Contains(reply.message, last.outcome.msg)
        /\ reply.id = last.request.id)

\* a fetch the backend answers with its error sentinel, under request id 7
C11_Witness ==
    /\ last.op = "fetch"
    /\ last.request.id = PyInt("7")
    /\ last.calls # <<>>
    /\ last.outcome.kind = "raise"
    /\ reply.kind = "error"

\* the id with its second and third part exchanged
Swapped(id) == LET parts == Split(id, "|") IN parts[1] \o "|" \o parts[3] \o "|" \o parts[2]

\* part is tokens:N for an integer N
IsTokensPart(part) == StartsWith(part, "tokens:") /\ IsIntLiteral(SubSeq(part, 8, Len(part)))

\* the id is a base followed by a topic and a tokens modifier, in either order
ModifierPair(id) ==
    LET parts == Split(id, "|")
    IN  /\ Len(parts) = 3
        /\ \/ StartsWith(parts[2], "topic:") /\ IsTokensPart(parts[3])
           \/ IsTokensPart(parts[2]) /\ StartsWith(parts[3], "topic:")

\* C12: a fetch of B|topic:T|tokens:N and a fetch of B|tokens:N|topic:T from
\* the same cache issue the same backend call and both return or both raise
C12_ModifierOrderInsensitive ==
    (last.op = "fetch" /\ IsStr(last.arg) /\ ModifierPair(last.arg.v))
    => LET other == Fetch(last.before, request_id - Len(last.calls), Str(Swapped(last.arg.v)), last.run)
       IN  /\ other.calls = last.calls
           /\ other.outcome.kind = last.outcome.kind

\* a fetch of a cache key with tokens before topic, both taking effect
C12_Witness ==
    /\ last.op = "fetch"
    /\ IsStr(last.arg)
    /\ BaseOf(last.arg.v) \in DOMAIN last.before
    /\ ModifierPair(last.arg.v)
    /\ StartsWith(Split(last.arg.v, "|")[2], "tokens:")
    /\ Len(last.calls) = 1
    /\ last.calls[1].tokens = 15000
    /\ last.calls[1].topic = Str("hooks")

\* C13: whenever two cache insertions, of any searches, target the same
\* result id, they write the same entry
C13_CollisionsWriteSameEntry ==
    \A m1, m2 \in minted : m1.id = m2.id => m1.entry = m2.entry

\* the message _call_context7 records for a failed attempt a of command i
ErrorOf(a, i) ==
    IF a.kind = "completed"
    THEN "Command " \o NpxCommands[i] \o " failed: returncode=" \o ToString(a.returncode)
    ELSE IF a.kind \in {"FileNotFoundError", "TimeoutExpired"}
    THEN "Command " \o NpxCommands[i] \o " error: " \o a.msg
    ELSE "Unexpected error with " \o NpxCommands[i] \o ": " \o a.msg

NoneWorked(run) == \A i \in DOMAIN run : ~Worked(run[i])

\* C14 as claimed: when no command works the call returns the 'Could not
\* get response' string with the last error recorded
C14_NoneWorkedCouldNotGetResponse ==
    (last.op = "returned" /\ NoneWorked(last.run))
    => last.text = Str("Could not get response from Context7 server. Last error: "
                       \o ErrorOf(last.run[Len(last.run)], Len(last.run)))

\* C14 amended: when no command works the call returns a string: the 'Could
\* not get response' string with the error of the last command when no
\* command ran to completion or the last one that did wrote no output, and
\* otherwise 'Error calling Context7: ' with the standard error of the last
\* command that ran to completion
C14_NoneWorkedDiagnostic ==
    (last.op = "returned" /\ NoneWorked(last.run))
    => LET done == {i \in DOMAIN last.run : last.run[i].kind = "completed"}
           latest == CHOOSE i \in done : \A j \in done : j <= i
       IN  IF done = {} \/ last.run[latest].stdout = <<>>
           THEN last.text = Str("Could not get response from Context7 server. Last error: "
                                \o ErrorOf(last.run[Len(last.run)], Len(last.run)))
           ELSE last.text = Str("Error calling Context7: " \o last.run[latest].stderr)

\* every command fails, in four different ways, the last by a timeout
C14_Witness ==
    /\ last.op = "returned"
    /\ last.run = <<NotFound, ExitOne(<<>>), Completed(0, <<>>, ""), TimedOut>>
    /\ last.text = Str("Could not get response from Context7 server. Last error: Command wsl error: Command timed out after 60 seconds")

\* C15: the call returns the text of the first output line that is a
\* response with the id of the tools/call frame and a text content item,
\* the other lines being skipped, and the 'No valid response' string when
\* the output of the command that worked has no such line
C15_FirstMatchingLineReturned ==
    (last.op = "returned" /\ ~NoneWorked(last.run))
    => LET w == CHOOSE i \in DOMAIN last.run :
                   Worked(last.run[i]) /\ \A j \in 1..(i - 1) : ~Worked(last.run[j])
           out == last.run[w].stdout
           matches == {k \in DOMAIN out : Matching(out[k])}
       IN  IF matches = {}
           THEN last.text = Str("No valid response from Context7 server")
           ELSE last.text = out[CHOOSE k \in matches : \A m \in matches : k <= m].text

\* C16: within one call the commands are tried in list order, each at most
\* once, up to and including the first that exits 0 with output; a command
\* that fails is followed by the next, and none is tried after one worked
C16_CandidatesInOrderUntilOneWorks ==
    last.op \in {"sent", "returned"}
    => LET works == {i \in DOMAIN last.run : Worked(last.run[i])}
           stop == IF works = {} THEN Len(last.run) ELSE CHOOSE i \in works : \A j \in works : i <= j
       IN  last.loop.tried = [j \in 1..stop |-> j]

\* the third command works after a timeout of the first two; the fourth,
\* which would work too, is not tried
C16_Witness ==
    /\ last.op = "returned"
    /\ last.run = <<TimedOut, TimedOut, Ok(Str("docs")), Ok(Str("late"))>>
    /\ last.loop.tried = <<1, 2, 3>>
    /\ last.text = Str("docs")

TopicValues(id) ==
    LET parts == Split(id, "|")
        at == SelectSeq([k \in 1..Len(parts) |-> k], LAMBDA k : k > 1 /\ StartsWith(parts[k], "topic:"))
    IN  [n \in 1..Len(at) |-> SubSeq(parts[at[n]], 7, Len(parts[at[n]]))]

\* the query stored for the base of an id: the cache entry's query, the
\* path itself for a base of library-path shape
StoredQuery(cache, id) ==
    IF IsLibraryPath(BaseOf(id)) THEN BaseOf(id) ELSE cache[BaseOf(id)].query

\* C18 as claimed: the topic a fetch sends is the value of a topic: modifier
\* when the id has one, and otherwise the query stored for its base
C18_TopicOverrideElseQuery ==
    (last.op = "fetch" /\ IsStr(last.arg) /\ last.calls # <<>>)
    => LET given == TopicValues(last.arg.v)
       IN  IF given # <<>>
           THEN \E n \in DOMAIN given : last.calls[1].topic = Str(given[n])
           ELSE last.calls[1].topic = Str(StoredQuery(last.before, last.arg.v))

\* C18 amended: the topic a fetch sends is the value of the last topic:
\* modifier, without its occurrences of 'topic:' and without surrounding
\* whitespace, when that is not empty; otherwise it is the query stored for
\* the base; when that is empty too no topic is sent
C18_TopicNormalizedOverrideElseQuery ==
    (last.op = "fetch" /\ IsStr(last.arg) /\ last.calls # <<>>)
    => LET given == TopicValues(last.arg.v)
           override == IF given = <<>> THEN "" ELSE Strip(Replace(given[Len(given)], "topic:", ""))
           effective == IF override # "" THEN override ELSE StoredQuery(last.before, last.arg.v)
       IN  /\ Len(last.calls) = 1
           /\ last.calls[1].topic = IF effective = "" THEN Absent ELSE Str(effective)

\* a fetch of a result of search("react") without a topic: modifier
C18_Witness ==
    /\ last.op = "fetch"
    /\ IsStr(last.arg)
    /\ BaseOf(last.arg.v) \in DOMAIN last.before
    /\ TopicValues(last.arg.v) = <<>>
    /\ Len(last.calls) = 1
    /\ last.calls[1].topic = Str("react")

\* the tokens: modifiers of an id, in order
TokensParts(id) ==
    LET parts == Split(id, "|")
    IN  SelectSeq(SubSeq(parts, 2, Len(parts)), LAMBDA part : StartsWith(part, "tokens:"))

\* a tokens: modifier whose value, blanks around it aside, int() rejects
Malformed(part) == ~IsIntLiteral(Strip(SubSeq(part, 8, Len(part))))

HasMalformedTokens(id) == \E n \in DOMAIN TokensParts(id) : Malformed(TokensParts(id)[n])

\* C19 as claimed: a fetch whose id has a malformed tokens: modifier does
\* not fail because of it and sends the default token budget 10000,
\* whatever the other modifiers
C19_MalformedTokensGiveDefault ==
    (/\ last.op = "fetch" /\ IsStr(last.arg)
     /\ HasMalformedTokens(last.arg.v)
     /\ IsLibraryPath(BaseOf(last.arg.v)) \/ BaseOf(last.arg.v) \in DOMAIN last.before)
    => (/\ Len(last.calls) = 1
        /\ last.calls[1].tokens = 10000
        /\ last.outcome.kind = "return")

\* C19 amended: a malformed tokens: modifier is ignored: the fetch does not
\* fail because of it, and the token budget sent is the one the other
\* modifiers give, max(N, 10000) for the last well-formed tokens:N and the
\* default 10000 when there is none
C19_MalformedTokensIgnored ==
    (/\ last.op = "fetch" /\ IsStr(last.arg)
     /\ HasMalformedTokens(last.arg.v)
     /\ IsLibraryPath(BaseOf(last.arg.v)) \/ BaseOf(last.arg.v) \in DOMAIN last.before)
    => LET good == SelectSeq(TokensParts(last.arg.v), LAMBDA part : ~Malformed(part))
           n == IntOf(Strip(SubSeq(good[Len(good)], 8, Len(good[Len(good)]))))
       IN  /\ Len(last.calls) = 1
           /\ last.calls[1].tokens = IF good = <<>> THEN 10000 ELSE Max2(n, 10000)
           /\ last.outcome.kind = "return"

\* a malformed tokens: modifier next to a topic: modifier that takes effect
C19_Witness ==
    /\ last.op = "fetch"
    /\ last.arg = Str("/org/project|tokens:abc|topic:hooks")
    /\ last.calls = <<[tool |-> "get-library-docs", library |-> "/org/project",
                       tokens |-> 10000, topic |-> Str("hooks")]>>
    /\ last.outcome.kind = "return"

\* C20: fetch never mutates the result cache: after a fetch, returned or
\* raised, the cache has the keys and the entries it had before
C20_FetchLeavesCacheUnchanged ==
    last.op = "fetch" => search_cache = last.before

\* fetches on a cache that holds an entry: one of its key that returns a
\* document, and one of a library path
C20_Witness ==
    /\ last.op = "fetch"
    /\ IsStr(last.arg)
    /\ DOMAIN search_cache # {}
    /\ last.outcome.kind = "return"
    /\ BaseOf(last.arg.v) \in DOMAIN last.before \/ IsLibraryPath(BaseOf(last.arg.v))

\* C21: cache entries are never evicted: no step removes a key of the
\* cache, every id a search inserted stays a key, and a fetch of an id
\* whose base is a key is not rejected as an unknown document id
C21_CacheKeysOnlyGrow ==
    /\ [][DOMAIN search_cache \subseteq DOMAIN search_cache']_vars
    /\ [](\A m \in minted : m.id \in DOMAIN search_cache)
    /\ []((/\ last.op = "fetch" /\ IsStr(last.arg)
           /\ BaseOf(last.arg.v) \in DOMAIN last.before
           /\ last.outcome.kind = "raise")
          => ~Contains(last.outcome.msg, "Unknown document ID"))

\* a fetch resolved through a cache that two searches have filled
C21_Witness ==
    /\ last.op = "fetch"
    /\ IsStr(last.arg)
    /\ BaseOf(last.arg.v) \in DOMAIN last.before
    /\ Cardinality(DOMAIN search_cache) >= 2
    /\ last.outcome.kind = "return"

\* the text of the probe is one the direct-path branch classifies as an error
ProbeIsError(x) ==
    IsStr(x) /\ (Contains(x.v, "Error calling Context7") \/ Contains(x.v, "No documentation found"))

\* the search of a library path made one call, the probe of line 225
ProbedOnce ==
    last.calls = <<[tool |-> "get-library-docs", library |-> last.arg.v, tokens |-> 100, topic |-> Absent]>>

\* the search returned one result with the given id and wrote one entry
\* under it, with library_id equal to the query
OneDirectResult(id) ==
    /\ Len(last.outcome.results) = 1
    /\ last.outcome.results[1].id = id
    /\ DOMAIN search_cache = DOMAIN last.before \cup {id}
    /\ search_cache[id].library_id = last.arg.v
    /\ \A k \in DOMAIN last.before \ {id} : search_cache[k] = last.before[k]

\* C22, as claimed: a search whose query has library-path shape issues
\* exactly one backend call, a get-library-docs probe for that path; when
\* the probe is a text not classified as an error it returns exactly one
\* result, whose id is the hash of query + ':direct', and inserts one cache
\* entry under that id with library_id equal to the query
C22_DirectPathSearch ==
    (last.op = "search" /\ IsStr(last.arg) /\ IsLibraryPath(last.arg.v))
    => /\ ProbedOnce
       /\ (IsStr(last.backend) /\ ~ProbeIsError(last.backend))
          => OneDirectResult(Md5Hex(last.arg.v \o ":direct"))

\* C22, amended: the one result and the one entry are there when, besides,
\* query + ':direct' can be encoded as UTF-8; when it cannot, the search
\* returns no result and leaves the cache as it was
C22_DirectPathSearchEncodable ==
    (last.op = "search" /\ IsStr(last.arg) /\ IsLibraryPath(last.arg.v))
    => /\ ProbedOnce
       /\ (IsStr(last.backend) /\ ~ProbeIsError(last.backend))
          => IF Encodable(last.arg.v \o ":direct")
             THEN OneDirectResult(Md5Hex(last.arg.v \o ":direct"))
             ELSE last.outcome.results = <<>> /\ search_cache = last.before

\* the probe of /org/project is answered with documentation, on a cache
\* that holds another entry
C22_Witness ==
    /\ last.op = "search"
    /\ last.arg = Str("/org/project")
    /\ last.backend = Str(DocText)
    /\ DOMAIN last.before # {}
    /\ Len(last.outcome.results) = 1
    /\ Cardinality(DOMAIN search_cache) = Cardinality(DOMAIN last.before) + 1

\* the keys a search wrote: those that are new or whose entry changed
Written == {k \in DOMAIN search_cache : k \notin DOMAIN last.before \/ search_cache[k] # last.before[k]}

\* C23: a name search returns at most 10 results and writes at most 10
\* cache entries, however many Title blocks the response has; the id of
\* every result is a cache key when the search returns, and the library id
\* and the title of the candidate stored under it are not empty
C23_AtMostTenResults ==
    (last.op = "search" /\ IsStr(last.arg) /\ ~IsLibraryPath(last.arg.v))
    => /\ Len(last.outcome.results) <= 10
       /\ Cardinality(Written) <= 10
       /\ \A i \in DOMAIN last.outcome.results :
             LET id == last.outcome.results[i].id
             IN  /\ id \in DOMAIN search_cache
                 /\ search_cache[id].library_id # ""
                 /\ search_cache[id].title # ""

\* a response of twelve blocks gives ten results and ten new cache keys
C23_Witness ==
    /\ last.op = "search"
    /\ last.backend = Str(RenderBlocks(ManyBlocks(12)))
    /\ Len(last.outcome.results) = 10
    /\ Cardinality(DOMAIN search_cache \ DOMAIN last.before) = 10

\* C24: a fetch whose base id has library-path shape does not depend on
\* the cache: from the cache it ran on and from the empty cache, with the
\* same id and the same backend reply, it issues the same backend call and
\* ends with the same document or the same error
C24_PathFetchIgnoresCache ==
    (last.op = "fetch" /\ IsStr(last.arg) /\ IsLibraryPath(BaseOf(last.arg.v)))
    => LET other == Fetch(EmptyCache, 1, last.arg, last.run)
       IN  /\ other.calls = last.calls
           /\ other.outcome = last.outcome

\* a fetch of /org/project that returns a document, on a cache in which an
\* earlier search stored that path
C24_Witness ==
    /\ last.op = "fetch"
    /\ last.arg = Str("/org/project")
    /\ \E k \in DOMAIN last.before : last.before[k].library_id = "/org/project"
    /\ last.outcome.kind = "return"

\* C25: a search that returns an empty result list leaves the cache as it
\* was, in both branches and for every backend outcome: a search changes
\* the cache only when it returns at least one result
C25_EmptySearchLeavesCacheUnchanged ==
    (last.op = "search" /\ last.outcome.results = <<>>) => search_cache = last.before

\* C26: every call completes: it makes at most four attempts and then
\* returns a string, whatever the commands do and write
C26_CallCompletesWithString ==
    /\ (last.op = "trying") ~> (last.op = "returned")
    /\ [](last.op \in {"trying", "returned"} => Len(last.loop.tried) <= Len(NpxCommands))
    /\ [](last.op = "returned" => IsStr(last.text))

\* the part of C26 that holds: every call completes after at most four
\* attempts and returns a value, the text item of the response as it is or
\* a string that says what failed
C26_CallCompletes ==
    /\ (last.op = "trying") ~> (last.op = "returned")
    /\ [](last.op \in {"trying", "returned"} => Len(last.loop.tried) <= Len(NpxCommands))
    /\ [](last.op = "returned" => last.text = CallContext7(last.sent - 1, last.run).text)

=============================================================================
